---- MODULE Spec2Model ----
(***************************************************************************)
(* smartmob-agent: the HTTP handlers of smartmob_agent/__init__.py and the *)
(* per-process pipeline task start_process, on one cooperative event loop, *)
(* and the life of the agent itself, from main to its stop event.          *)
(* A step of the model is the code a coroutine runs between two suspension *)
(* points (yield from); nothing else interleaves inside it.                *)
(***************************************************************************)
EXTENDS Integers, Sequences, FiniteSets, TLC

VARIABLES
    processes,  \* app['smartmob.processes']: slug -> the record stored under it
    rec,        \* the record dicts r built by create_process, by identity
    req,        \* the handlers suspended at a yield from, in arrival order
    last,       \* the response sent last, with what its handler saw
    nreq,       \* how many requests have arrived
    wins,       \* observer: per slug, the 201 responses since its last removal
    removals,   \* observer: per slug, how many times del processes[slug] ran
    gone,       \* observer: slugs whose DELETE returned 200, no CREATE 201 since
    agent       \* main: its arguments, the logging it configured, its server,
                \* its HTTP client and the bind, http.access and stop events

vars == <<processes, rec, req, last, nreq, wins, removals, gone, agent>>

\* ------------------------------------------------------------------ bounds
MaxRequests == 4
MaxRecords == 2
MaxSpawns == 2

\* ------------------------------------------------------------------ inputs
Missing == "<missing>"
Apps == {"foo"}
Nodes == {"web.0"}
ProcessTypes == {"web"}
Responses ==
    {[status |-> 200, ctype |-> "application/zip"],
     [status |-> 200, ctype |-> "application/x-gtar"],
     [status |-> 200, ctype |-> "text/html"],
     [status |-> 404, ctype |-> "text/html"]}
ExitStatuses == {0, 1}

\* What the unpacked tree holds: no Procfile, or one declaring a single type.
Procfiles == {"absent", "web", "worker"}

\* Variant of Slug: a join that keeps different (app, node) pairs apart.
Slug_pairwise(app, node) == app \o "/" \o node

\* slug = '.'.join((r['app'], r['node']))
Slug(app, node) == app \o "." \o node

\* The slugs of the main runs.
Slugs == {Slug(a, n) : a \in Apps, n \in Nodes}

\* (app, node) pairs of the runs on the join: two pairs that join to one
\* slug, and a pair that joins to another.
Pairs == {<<"foo", "web.0">>, <<"foo.web", "0">>, <<"foo", "0">>}

\* Every key the registry can hold.
AllSlugs == Slugs \cup {Slug(pair[1], pair[2]) : pair \in Pairs}

\* The slugs requests may name: those a CREATE can register and one it cannot.
LookupSlugs == Slugs \cup {"unknown"}

\* request.scheme and request.host of the requests.
Scheme == "http"
Host == "127.0.0.1:8080"

\* The X-Request-Id header a client sends: none, an empty one, one of its own.
RequestIds == {Missing, "", "My very own request ID!"}
NoRequestId == {Missing}

\* str(uuid.uuid4())
Uuid == "<uuid4>"

\* A JSON value that is not a string.
NotAStr == "<not a str>"

Urls == {"http://files/foo.zip"}

\* An environment is a set of <<name, value>> pairs, one pair per name.
NoEnv == {}
Envs == {NoEnv, {<<"PORT", "9000">>}}

Str(v) == v \notin {Missing, NotAStr}

\* Variant of CreateRequest: env is not looked at.
CreateRequest_requiredOnly(body) ==
    /\ Str(body.app)
    /\ Str(body.node)
    /\ Str(body.source_url)
    /\ Str(body.process_type)

\* CreateRequest: the required keys are present and are strings; env, when
\* present, maps strings to strings.
CreateRequest(body) ==
    /\ Str(body.app)
    /\ Str(body.node)
    /\ Str(body.source_url)
    /\ Str(body.process_type)
    /\ \A kv \in body.env : Str(kv[1]) /\ Str(kv[2])

ValidBodies ==
    [app : Apps, node : Nodes, source_url : Urls,
     process_type : ProcessTypes, env : Envs]

\* Bodies the schema refuses: a required key is missing, a value is not a
\* string, an env value is not a string.
InvalidBodies ==
    {[app |-> Missing, node |-> "web.0", source_url |-> "http://files/foo.zip",
      process_type |-> "web", env |-> NoEnv],
     [app |-> "foo", node |-> "web.0", source_url |-> NotAStr,
      process_type |-> "web", env |-> NoEnv],
     [app |-> "foo", node |-> "web.0", source_url |-> "http://files/foo.zip",
      process_type |-> "web", env |-> {<<"PORT", NotAStr>>}]}

\* The bodies of the runs on the join.
PairBodies ==
    {[app |-> pair[1], node |-> pair[2], source_url |-> "http://files/foo.zip",
      process_type |-> "web", env |-> NoEnv] : pair \in Pairs}

\* The bodies of the main runs: without env when the schema accepts them.
Bodies == {body \in ValidBodies : body.env = NoEnv} \cup InvalidBodies

\* The environment a Procfile declares for its process type.
ProcEnv(procfile) ==
    IF procfile = "web" THEN {<<"PORT", "8000">>, <<"LANG", "C">>} ELSE NoEnv

\* ------------------------------------------------------------------ pipeline helpers
is_archive(ctype) == ctype \in {"application/zip", "application/x-gtar"}

\* Variant of Rejects: the content type is not looked at.
Rejects_nothing(ctype) == FALSE

\* reject=negate(is_archive)
Rejects(ctype) == ~is_archive(ctype)

\* download: a response passes when its status is 200 and it is not rejected.
DownloadPasses(resp) == resp.status = 200 /\ ~Rejects(resp.ctype)

\* Variant of DownloadError: the predicate is asked before the status is read.
DownloadError_predicateFirst(resp) ==
    IF Rejects(resp.ctype) THEN "Download rejected."
    ELSE IF resp.status # 200 THEN "Download failed." ELSE ""

\* download: the exception its two checks raise, in their order; "" when
\* both pass.
DownloadError(resp) ==
    IF resp.status # 200 THEN "Download failed."
    ELSE IF Rejects(resp.ctype) THEN "Download rejected." ELSE ""

\* download: reject(url, response) is called once the status check has passed.
PredicateConsulted(resp) == resp.status = 200

\* What can go wrong once the destination is open: response.read() raises,
\* archive.write(content) raises.
BodyErrors == {"read", "write"}

\* Variant of Autoclose: the response is closed when the block returns only.
Autoclose_onReturn(p, exit) ==
    IF exit = "return" THEN [p EXCEPT !.response = "closed"] ELSE p

\* with autoclose(response): close() runs in a finally clause, however the
\* block is left.
Autoclose(p, exit) == [p EXCEPT !.response = "closed"]

\* archive_format = {...}[content_type]; a missing key raises KeyError.
ArchiveFormat(ctype) ==
    CASE ctype = "application/zip" -> "zip"
      [] ctype = "application/x-gtar" -> "tar"
      [] OTHER -> "KeyError"

\* unpack_archive: any other format raises ValueError.
KnownFormat(fmt) == fmt \in {"zip", "tar"}

\* Variant of TaskDone: a task that ended with an exception is not done.
TaskDone_returnedOnly(task) == task = "returned"

\* asyncio.Task.done()
TaskDone(task) == task \in {"returned", "raised"}

\* process['state'] = s, with the record's history of writes kept beside it.
Write(p, s) == [p EXCEPT !.state = s, !.states = Append(@, s)]

\* A phase of the pipeline begins; afterStop keeps the phases begun once the
\* stop future was done.
Begin(p, phase) ==
    [p EXCEPT !.started = @ \cup {phase},
              !.afterStop = IF p.stop = "done" THEN @ \cup {phase} ELSE @]

NoResp == [status |-> 0, ctype |-> ""]

\* Variant of InitialState: the new record takes the state of a pipeline
\* that has stopped.
InitialState_stopped == "no procfile"

\* The state create_process writes after loop.create_task (line 504).
InitialState == "pending"

\* The record create_process builds (lines 499-504): the task is created
\* before the state is written, and runs only once the handler suspends.
NewRecord(body) ==
    [slug |-> Slug(body.app, body.node),
     app |-> body.app, node |-> body.node, env |-> body.env,
     process_type |-> body.process_type,
     stop |-> "pending", task |-> "created",
     state |-> InitialState, states |-> <<InitialState>>,
     started |-> {}, afterStop |-> {}, resp |-> NoResp, format |-> "",
     response |-> "none", consulted |-> FALSE, written |-> "none",
     dlerr |-> "", ctype |-> "",
     procfile |-> "", venv |-> -1, pip |-> -1,
     child |-> "none", spawns |-> 0, childEnv |-> NoEnv]

\* A record nothing refers to any more: erased from the registry, its task done.
Freed ==
    [slug |-> "", app |-> "", node |-> "", env |-> NoEnv,
     process_type |-> "", stop |-> "done", task |-> "freed",
     state |-> "", states |-> <<>>, started |-> {}, afterStop |-> {},
     resp |-> NoResp, format |-> "",
     response |-> "none", consulted |-> FALSE, written |-> "none",
     dlerr |-> "", ctype |-> "",
     procfile |-> "", venv |-> -1, pip |-> -1,
     child |-> "none", spawns |-> 0, childEnv |-> NoEnv]

Live(r) == r \in DOMAIN rec /\ rec[r].task # "freed"

\* ------------------------------------------------------------------ requests
SlugWins(slug) == IF slug \in AllSlugs THEN wins[slug] ELSE 0

\* request.path of the route a handler is bound to (lines 634-644).
Path(kind, slug) ==
    CASE kind = "create" -> "/create-process"
      [] kind = "list" -> "/list-processes"
      [] kind = "status" -> "/process-status/" \o slug
      [] kind = "delete" -> "/delete-process/" \o slug
      [] kind = "attach" -> "/attach-console/" \o slug
      [] kind = "index" -> "/"

NoDetail ==
    [app |-> "", slug |-> "", attach |-> "", details |-> "", delete |-> "",
     state |-> ""]

\* inject_request_id: the header's value unless it is absent or empty.
RequestId(hdr) == IF hdr \notin {Missing, ""} THEN hdr ELSE Uuid

NewReq(kind, slug, hdr) ==
    [kind |-> kind, app |-> "", node |-> "", source_url |-> "",
     process_type |-> "", env |-> NoEnv, slug |-> slug,
     hdr |-> hdr, id |-> RequestId(hdr), raised |-> "", hstatus |-> 0,
     events |-> <<>>, eventSlug |-> "", frames |-> <<>>, closed |-> FALSE,
     access |-> <<>>, xrid |-> Missing,
     detail |-> NoDetail, location |-> Missing,
     pc |-> "done", status |-> 0, err |-> "", rid |-> 0, state |-> "",
     listing |-> <<>>, index |-> <<>>, waited |-> FALSE,
     found |-> slug \in DOMAIN processes, stopSeen |-> "",
     winsSeen |-> SlugWins(slug),
     afterDelete |-> slug \in AllSlugs /\ removals[slug] > 0,
     afterGone |-> slug \in gone]

NoReq ==
    [kind |-> "", app |-> "", node |-> "", source_url |-> "",
     process_type |-> "", env |-> NoEnv, slug |-> "",
     hdr |-> Missing, id |-> "", raised |-> "", hstatus |-> 0,
     events |-> <<>>, eventSlug |-> "", frames |-> <<>>, closed |-> FALSE,
     access |-> <<>>, xrid |-> Missing,
     detail |-> NoDetail, location |-> Missing,
     pc |-> "done", status |-> 0, err |-> "", rid |-> 0, state |-> "",
     listing |-> <<>>, index |-> <<>>, waited |-> FALSE,
     found |-> FALSE, stopSeen |-> "", winsSeen |-> 0,
     afterDelete |-> FALSE, afterGone |-> FALSE]

\* Variant of Without: the key is left in place.
Without_keeps(f, k) == f

\* del f[k]
Without(f, k) == [x \in DOMAIN f \ {k} |-> f[x]]

With(f, k, v) == [x \in DOMAIN f \cup {k} |-> IF x = k THEN v ELSE f[x]]

\* The suspended handlers without the i-th.
Drop(i) == [k \in 1..(Len(req) - 1) |-> IF k < i THEN req[k] ELSE req[k + 1]]

\* ------------------------------------------------------------------ the agent
\* A logging endpoint, by the parts the code looks at: the prefix that
\* configure_logging tests, the rest of the URL without its query, the query.
Endpoint(prefix, rest, query) ==
    [prefix |-> prefix, rest |-> rest, query |-> query]

\* None: the argument was not given, the variable is not set.
NoEndpoint == Endpoint("<None>", "", "")
EmptyEndpoint == Endpoint("", "", "")
Stdout == Endpoint("file://", "/dev/stdout", "")
Stderr == Endpoint("file://", "/dev/stderr", "")
Fluent == Endpoint("fluent://", "127.0.0.1:24224/the-app", "")
FluentWithQuery == Endpoint("fluent://", "127.0.0.1:24224/the-app", "hello=1")
Flume == Endpoint("flume://", "127.0.0.1:44444", "")

\* The values of --logging-endpoint and of SMARTMOB_LOGGING_ENDPOINT.
ArgumentEndpoints == {NoEndpoint, EmptyEndpoint, Stderr, Fluent, Flume}
EnvironEndpoints == {NoEndpoint, EmptyEndpoint, Stdout, Fluent, FluentWithQuery}
LogFormats == {"kv", "json"}

\* logging_endpoint = 'file:///dev/stdout' (line 711).
DefaultEndpoint == Stdout

\* not logging_endpoint
Falsy(endpoint) == endpoint \in {NoEndpoint, EmptyEndpoint}

\* Variant of Resolve: the environment is consulted before the argument.
Resolve_environFirst(arg, environ) ==
    IF ~Falsy(environ) THEN environ
    ELSE IF ~Falsy(arg) THEN arg ELSE DefaultEndpoint

\* main's dynamic default of the endpoint (lines 706-711).
Resolve(arg, environ) ==
    LET endpoint == IF Falsy(arg) THEN environ ELSE arg
    IN  IF Falsy(endpoint) THEN DefaultEndpoint ELSE endpoint

NoLogging ==
    [installed |-> FALSE, factory |-> "", stamper |-> "", renderer |-> "",
     error |-> ""]

\* TimeStamper.__init__: now() is an aware UTC time or a naive local time.
TimeStamper(utc) == IF utc THEN "utc" ELSE "local"

\* FluentLoggerFactory.from_url raises on a query (the endpoints here have
\* no fragment and a numeric port).
InvalidUrl(endpoint) == endpoint.query # ""

\* configure_logging: the TimeStamper is built from the utc argument before
\* the endpoint is looked at; the assignment utc = True of the fluent branch
\* comes after it and reaches no processor. structlog.configure is the last
\* statement.
ConfigureLogging(log_format, utc, endpoint) ==
    LET stamper == TimeStamper(utc)
    IN  IF endpoint.prefix = "file://"
        THEN [installed |-> TRUE, factory |-> "print", stamper |-> stamper,
              renderer |-> IF log_format = "kv" THEN "KeyValueRenderer"
                                                 ELSE "JSONRenderer",
              error |-> ""]
        ELSE IF endpoint.prefix = "fluent://"
        THEN IF InvalidUrl(endpoint)
             THEN [NoLogging EXCEPT !.error = "Invalid URL"]
             ELSE [installed |-> TRUE, factory |-> "fluent",
                   stamper |-> stamper, renderer |-> "", error |-> ""]
        ELSE [NoLogging EXCEPT !.error = "Invalid logging endpoint"]

\* TimeStamper.__call__: a '@timestamp' the caller passes is kept, a
\* datetime in its own zone; now() is used for the others.
Stamp(stamper, given) == IF given # "" THEN given ELSE stamper

\* access_log_middleware passes its arrival time, an aware UTC datetime.
ArrivalTime == "utc"

\* main before its first statement, with its arguments and environment.
Boot(arg, environ, utc, log_format) ==
    [phase |-> "start", arg |-> arg, environ |-> environ, utc |-> utc,
     log_format |-> log_format, endpoint |-> NoEndpoint,
     logging |-> NoLogging, log |-> <<>>, server |-> "none",
     client |-> "none", trace |-> <<>>]

\* main up to structlog.get_logger (lines 700-720): a ValueError of
\* configure_logging ends the process.
Configured(a) ==
    LET endpoint == Resolve(a.arg, a.environ)
        logging == ConfigureLogging(a.log_format, a.utc, endpoint)
    IN  [a EXCEPT !.endpoint = endpoint, !.logging = logging,
                  !.phase = IF logging.error = "" THEN "configured"
                                                  ELSE "failed"]

\* event_log.info(event, ...): the record as the TimeStamper leaves it.
Emit(a, event, given) ==
    [a EXCEPT !.log = Append(@, [event |-> event,
                                 timestamp |-> Stamp(a.logging.stamper, given)])]

\* Variant of Bound: no bind event is logged.
Bound_unlogged(a) == [a EXCEPT !.phase = "binding"]

\* start_responder up to loop.create_server (lines 621-667).
Bound(a) == [Emit(a, "bind", "") EXCEPT !.phase = "binding"]

\* The server listens; responder makes the HTTP client and yields to
\* loop.run_forever (lines 667-683, 729).
Listening(a) ==
    [a EXCEPT !.server = "listening", !.client = "open", !.phase = "serving"]

\* main([]) with SMARTMOB_LOGGING_ENDPOINT unset.
DefaultBoot == Boot(NoEndpoint, NoEndpoint, FALSE, "kv")

\* The agent once main runs its loop.
Serving == Listening(Bound(Configured(DefaultBoot)))

\* The server accepts connections and the loop runs them.
Accepts(a) == a.phase = "serving" /\ a.server = "listening"

\* The loop runs: in run_forever and in the run_until_complete calls of
\* responder's finally clause.
Running(a) == a.phase \in {"serving", "closing", "draining", "finishing"}

\* The http.access event of a request that is over.
Logs(a, r) ==
    IF r.access = <<>> THEN a ELSE Emit(a, "http.access", ArrivalTime)

InitWith(a) ==
    /\ processes = <<>>
    /\ rec = <<>>
    /\ req = <<>>
    /\ last = NoReq
    /\ nreq = 0
    /\ wins = [s \in AllSlugs |-> 0]
    /\ removals = [s \in AllSlugs |-> 0]
    /\ gone = {}
    /\ agent = a

\* The agent serves, and has served nothing.
Init == InitWith(Serving)

\* ------------------------------------------------------------------ HTTP handlers
\* Variant of AccessOutcome: every exception is logged as a 500.
AccessOutcome_raisedIs500(r) == IF r.raised = "" THEN r.hstatus ELSE 500

\* The outcome access_log logs in each of its three branches:
\* response.status, error.status, 500.
AccessOutcome(r) ==
    CASE r.raised = "" -> r.hstatus
      [] r.raised = "HTTPException" -> r.hstatus
      [] r.raised = "Exception" -> 500

\* Variant of AccessBranches: no except clause for other exceptions.
AccessBranches_noCatchAll == {"", "HTTPException"}

\* The ways out of the handler in which access_log logs: the return, except
\* web.HTTPException, except Exception.
AccessBranches == {"", "HTTPException", "Exception"}

\* access_log once the handler is over: one http.access event.
AccessLog(r) ==
    IF r.raised \in AccessBranches
    THEN [r EXCEPT !.access = Append(@, [event |-> "http.access",
                                         path |-> Path(r.kind, r.slug),
                                         outcome |-> AccessOutcome(r),
                                         request |-> r.id])]
    ELSE r

\* on_response_prepare is sent for the responses of the application: those
\* a handler returns and the HTTP exceptions; the 500 the server makes of
\* any other exception does not go through it.
Prepared(r) == r.raised # "Exception"

\* echo_request_id, where the signal is sent.
Echo(r) == IF Prepared(r) THEN [r EXCEPT !.xrid = r.id] ELSE r

\* The status the client reads: that of the response or of the HTTP
\* exception the middlewares let out, 500 for any other exception.
ClientStatus(r) == IF r.raised = "Exception" THEN 500 ELSE r.hstatus

\* What the client gets once the handler is over: access_log logs and lets
\* the response or the exception out as it got it.
Served(r) ==
    LET out == Echo(AccessLog(r))
    IN  [out EXCEPT !.pc = "done", !.status = ClientStatus(out)]

\* The handler returns a response.
Respond(r, status) == Served([r EXCEPT !.hstatus = status])

\* The handler raises a web.HTTPException.
Refuse(r, status) ==
    Served([r EXCEPT !.hstatus = status, !.raised = "HTTPException"])

\* The handler raises any other exception.
Fail(r, err) == Served([r EXCEPT !.err = err, !.raised = "Exception"])

\* Variant of HoldsLoop: unpack_archive is called on the loop's thread.
HoldsLoop_unpacking(p) == p.task = "unpack"

\* A task keeps the loop's thread while it waits: never. The download and the
\* children are awaited with yield from, and unpack_archive runs on the
\* default executor (lines 424-426).
HoldsLoop(p) == FALSE

\* The loop can run a callback other than a step of record r's task.
LoopFree(r) == \A q \in DOMAIN rec \ {r} : ~HoldsLoop(rec[q])

\* A request arrives and its handler runs to its first suspension or its end.
Arrive(r) ==
    /\ Accepts(agent)
    /\ LoopFree(0)
    /\ nreq < MaxRequests
    /\ nreq' = nreq + 1
    /\ IF r.pc = "done"
       THEN last' = r /\ req' = req /\ agent' = Logs(agent, r)
       ELSE req' = Append(req, r) /\ last' = last /\ agent' = agent

\* The suspended handler i resumes and runs to its end.
Finish(i, r) ==
    /\ Running(agent)
    /\ LoopFree(0)
    /\ req' = Drop(i)
    /\ last' = r
    /\ nreq' = nreq
    /\ agent' = Logs(agent, r)

\* index (lines 260-279): the URLs of the listing and of CREATE.
Index(hdr) ==
    /\ Arrive(Respond([NewReq("index", "", hdr) EXCEPT
                  !.index = <<Scheme \o "://" \o Host \o Path("list", ""),
                              Scheme \o "://" \o Host \o Path("create", "")>>],
              200))
    /\ UNCHANGED <<processes, rec, wins, removals, gone>>

\* create_process up to its suspension at request.json() (line 483).
CreateArrive(body, hdr) ==
    /\ Arrive([NewReq("create", IF CreateRequest(body)
                                THEN Slug(body.app, body.node) ELSE "", hdr)
                 EXCEPT !.app = body.app, !.node = body.node,
                        !.source_url = body.source_url,
                        !.process_type = body.process_type,
                        !.env = body.env, !.pc = "json"])
    /\ UNCHANGED <<processes, rec, wins, removals, gone>>

\* Variant of DetailState: a state cached when the record was built.
DetailState_firstWritten(p) == p.states[1]

\* make_details: the state reported for a record (line 305).
DetailState(p) == p.state

\* '%s://%s%s' % (scheme, request.host, router[name].url(parts={'slug': slug}))
Url(scheme, kind, slug) == scheme \o "://" \o Host \o Path(kind, slug)

\* make_details (lines 282-306).
MakeDetails(p) ==
    [app |-> p.app,
     slug |-> p.slug,
     attach |-> Url("ws", "attach", p.slug),
     details |-> Url(Scheme, "status", p.slug),
     delete |-> Url(Scheme, "delete", p.slug),
     state |-> DetailState(p)]

\* Variant of Location: the header names the delete URL.
Location_ofDelete(process) == process.delete

\* headers={'Location': process['details']} (lines 514-516).
Location(process) == process.details

\* Variant of Conflicts: the registry is searched by app name.
Conflicts_keyedByApp(slug) == \E a \in Apps : a = slug /\ a \in DOMAIN processes

\* Variant of Conflicts: a record whose stop future is done is not seen.
Conflicts_ignoresStopping(slug) ==
    slug \in DOMAIN processes /\ rec[processes[slug]].stop # "done"

\* The conflict test of create_process (line 492).
Conflicts(slug) == slug \in DOMAIN processes

\* create_process from the body's arrival to its return (lines 484-517):
\* no yield from in between.
CreateHandle(i) ==
    /\ i \in DOMAIN req
    /\ req[i].kind = "create" /\ req[i].pc = "json"
    /\ LET body == [app |-> req[i].app, node |-> req[i].node,
                    source_url |-> req[i].source_url,
                    process_type |-> req[i].process_type, env |-> req[i].env]
           slug == Slug(body.app, body.node)
           rid == Len(rec) + 1
           seen == [req[i] EXCEPT !.found = slug \in DOMAIN processes,
                                  !.winsSeen = wins[slug],
                                  !.afterDelete = removals[slug] > 0,
                                  !.afterGone = slug \in gone]
       IN  IF ~CreateRequest(body)
           THEN /\ Finish(i, Refuse(req[i], 400))
                /\ UNCHANGED <<processes, rec, wins, removals, gone>>
           ELSE IF Conflicts(slug)
           THEN /\ Finish(i, Refuse(seen, 409))
                /\ UNCHANGED <<processes, rec, wins, removals, gone>>
           ELSE /\ Len(rec) < MaxRecords
                /\ rec' = Append(rec, NewRecord(body))
                /\ processes' = With(processes, slug, rid)
                /\ LET process == MakeDetails(rec'[rid])
                   IN  Finish(i, Respond([seen EXCEPT
                                  !.events = <<"process.create">>,
                                  !.rid = rid, !.state = process.state,
                                  !.detail = process,
                                  !.location = Location(process)], 201))
                /\ wins' = [wins EXCEPT ![slug] = @ + 1]
                /\ gone' = gone \ {slug}
                /\ UNCHANGED removals

\* process_status (lines 520-537): no suspension point.
Status(slug, hdr) ==
    /\ Arrive(IF slug \notin DOMAIN processes
              THEN Refuse(NewReq("status", slug, hdr), 404)
              ELSE LET process == MakeDetails(rec[processes[slug]])
                   IN  Respond([NewReq("status", slug, hdr) EXCEPT
                                   !.rid = processes[slug],
                                   !.state = process.state,
                                   !.detail = process], 200))
    /\ UNCHANGED <<processes, rec, wins, removals, gone>>

\* The elements of a finite set, one after the other.
RECURSIVE SeqOf(_)
SeqOf(S) ==
    IF S = {} THEN <<>>
    ELSE LET x == CHOOSE y \in S : TRUE IN <<x>> \o SeqOf(S \ {x})

\* Variant of Values: the records being deleted are left out.
Values_hidesStopping(procs) ==
    SeqOf({r \in {procs[s] : s \in DOMAIN procs} : rec[r].stop # "done"})

\* processes.values()
Values(procs) == SeqOf({procs[s] : s \in DOMAIN procs})

\* list_processes (lines 608-618): no suspension point.
List(hdr) ==
    /\ Arrive(Respond([NewReq("list", "", hdr) EXCEPT
                  !.listing = [k \in DOMAIN Values(processes) |->
                                  MakeDetails(rec[Values(processes)[k]])]],
              200))
    /\ UNCHANGED <<processes, rec, wins, removals, gone>>

\* Variant of Logged: the request is logged before its slug is looked up.
Logged_beforeLookup(kind, found) == <<"process." \o kind>>

\* event_log.info('process.delete' / 'process.attach', slug=slug) comes
\* after the lookup of the slug (lines 545-554, 586-599).
Logged(kind, found) == IF found THEN <<"process." \o kind>> ELSE <<>>

\* asyncio.Future.set_result raises InvalidStateError on a future that is done.
SetResultRaises(stop) == stop = "done"

\* Variant of AwaitSuspends: the task is not awaited.
AwaitSuspends_never(task) == FALSE

\* yield from process['task'] suspends exactly when the task is not done.
AwaitSuspends(task) == ~TaskDone(task)

\* del processes[slug] (line 564) and the 200 response; KeyError gives 500.
\* The erased record is garbage once its task is done.
Erase(r, rec1) ==
    IF r.slug \in DOMAIN processes
    THEN /\ processes' = Without(processes, r.slug)
         /\ rec' = LET rid == processes[r.slug]
                   IN  IF TaskDone(rec1[rid].task)
                       THEN [rec1 EXCEPT ![rid] = Freed] ELSE rec1
         /\ wins' = [wins EXCEPT ![r.slug] = 0]
         /\ removals' = [removals EXCEPT ![r.slug] = @ + 1]
         /\ gone' = gone \cup {r.slug}
         /\ last' = Respond(r, 200)
         /\ agent' = Logs(agent, last')
    ELSE /\ last' = Fail(r, "KeyError")
         /\ agent' = Logs(agent, last')
         /\ rec' = rec1
         /\ UNCHANGED <<processes, wins, removals, gone>>

\* delete_process up to its first suspension (lines 541-559), and to its end
\* (lines 560-572) when the task is already done.
DeleteArrive(slug, hdr) ==
    /\ Accepts(agent)
    /\ LoopFree(0)
    /\ nreq < MaxRequests
    /\ nreq' = nreq + 1
    /\ LET r == [NewReq("delete", slug, hdr) EXCEPT
                    !.events = Logged("delete", slug \in DOMAIN processes),
                    !.eventSlug = IF slug \in DOMAIN processes THEN slug ELSE ""]
       IN  IF slug \notin DOMAIN processes
           THEN /\ last' = Refuse(r, 404)
                /\ agent' = Logs(agent, last')
                /\ UNCHANGED <<processes, rec, req, wins, removals, gone>>
           ELSE LET rid == processes[slug]
                    held == [r EXCEPT !.rid = rid, !.stopSeen = rec[rid].stop]
                IN  IF SetResultRaises(rec[rid].stop)
                    THEN /\ last' = Fail(held, "InvalidStateError")
                         /\ agent' = Logs(agent, last')
                         /\ UNCHANGED <<processes, rec, req, wins, removals, gone>>
                    ELSE IF AwaitSuspends(rec[rid].task)
                    THEN /\ req' = Append(req, [held EXCEPT !.pc = "await", !.waited = TRUE])
                         /\ rec' = [rec EXCEPT ![rid].stop = "done"]
                         /\ UNCHANGED <<processes, last, wins, removals, gone, agent>>
                    ELSE /\ req' = req
                         /\ Erase(held, [rec EXCEPT ![rid].stop = "done"])

\* delete_process once the awaited task is done (lines 560-572); an
\* exception of the task is swallowed.
DeleteResume(i) ==
    /\ i \in DOMAIN req
    /\ req[i].kind = "delete" /\ req[i].pc = "await"
    /\ ~AwaitSuspends(rec[req[i].rid].task)
    /\ Running(agent)
    /\ LoopFree(0)
    /\ req' = Drop(i)
    /\ nreq' = nreq
    /\ Erase(req[i], rec)

\* attach_console up to stream.prepare (lines 576-592).
AttachArrive(slug, hdr) ==
    /\ Arrive(IF slug \notin DOMAIN processes
              THEN Refuse([NewReq("attach", slug, hdr) EXCEPT
                              !.events = Logged("attach", FALSE)], 404)
              ELSE Echo([NewReq("attach", slug, hdr) EXCEPT
                            !.pc = "handshake", !.rid = processes[slug]]))
    /\ UNCHANGED <<processes, rec, wins, removals, gone>>

\* Variant of ConsoleFrames: the state of the process is sent as a frame.
ConsoleFrames_state(p) == <<p.state>>

\* The frames attach_console sends between the handshake and the close:
\* piping the output of the process is left to do (lines 594-596).
ConsoleFrames(p) == <<>>

\* attach_console after the handshake (lines 594-605): log, close, return.
AttachFinish(i) ==
    /\ i \in DOMAIN req
    /\ req[i].kind = "attach" /\ req[i].pc = "handshake"
    /\ Finish(i, Respond([req[i] EXCEPT
                             !.frames = ConsoleFrames(rec[req[i].rid]),
                             !.events = Logged("attach", TRUE),
                             !.eventSlug = req[i].slug,
                             !.closed = TRUE],
                         101))
    /\ UNCHANGED <<processes, rec, wins, removals, gone>>

\* ------------------------------------------------------------------ pipeline task
\* Variant of Step: the task writes its state into every record.
Step_sharedState(r, p) ==
    /\ Running(agent)
    /\ rec' = [k \in DOMAIN rec |->
                 IF k = r THEN p ELSE [rec[k] EXCEPT !.state = p.state]]
    /\ UNCHANGED <<processes, req, last, nreq, wins, removals, gone, agent>>

\* A step of a task: the loop runs it.
Step(r, p) ==
    /\ Running(agent)
    /\ LoopFree(r)
    /\ rec' = [rec EXCEPT ![r] = p]
    /\ UNCHANGED <<processes, req, last, nreq, wins, removals, gone, agent>>

Raise(p) == [p EXCEPT !.task = "raised"]

Return(p) == [p EXCEPT !.task = "returned"]

\* Variant of DownloadFailure: the state is written and the download is
\* tried again.
DownloadFailure_retries(p) ==
    [Write(p, "download failure") EXCEPT !.task = "created"]

\* The except clause around download (lines 413-415).
DownloadFailure(p) == Raise(Write(p, "download failure"))

\* start_process from its first run to client.get in download (lines 390-408,
\* 331-335).
\* Variant of Started: the download begins before the state is written.
Started_unlabelled(p) == [Begin(p, "download") EXCEPT !.task = "get"]

Started(p) == [Begin(Write(p, "downloading"), "download") EXCEPT !.task = "get"]

\* The first step of the task.
TaskStart(r) ==
    /\ r \in DOMAIN rec
    /\ rec[r].task = "created"
    /\ Step(r, Started(rec[r]))

\* client.get raised: no response was obtained.
GetError(r) ==
    /\ r \in DOMAIN rec
    /\ rec[r].task = "get"
    /\ Step(r, DownloadFailure(rec[r]))

\* download once the response has arrived (lines 336-342): the two checks,
\* then the destination is opened and the body awaited.
Got(p0, resp) ==
    LET p == [p0 EXCEPT !.resp = resp, !.response = "open",
                        !.consulted = PredicateConsulted(resp),
                        !.dlerr = DownloadError(resp)]
    IN  IF DownloadPasses(resp)
        THEN [p EXCEPT !.task = "read", !.written = "opened"]
        ELSE DownloadFailure(Autoclose(p, "raise"))

\* The step of the task that receives the response.
GetDone(r, resp) ==
    /\ r \in DOMAIN rec
    /\ rec[r].task = "get"
    /\ Step(r, Got(rec[r], resp))

\* response.read() or archive.write(content) raised.
BodyFailed(p, err) ==
    DownloadFailure(Autoclose([p EXCEPT !.dlerr = err], "raise"))

\* The step of the task in which the body fails.
ReadError(r, err) ==
    /\ r \in DOMAIN rec
    /\ rec[r].task = "read"
    /\ Step(r, BodyFailed(rec[r], err))

\* Variant of AfterDownload: the unpacking state is never written.
AfterDownload_skipsUnpacking == "processing"

\* The state written once download has returned (line 416).
AfterDownload == "unpacking"

\* download returns the Content-Type; start_process deduces the format and
\* hands unpack_archive to the executor (lines 343-345, 416-430).
Downloaded(p0) ==
    LET got == Autoclose([p0 EXCEPT !.written = "body"], "return")
        p == Write([got EXCEPT !.ctype = got.resp.ctype], AfterDownload)
        fmt == ArchiveFormat(p.ctype)
    IN  IF fmt = "KeyError"
        THEN Raise(p)
        ELSE [Begin(p, "unpack") EXCEPT !.task = "unpack", !.format = fmt]

\* The step of the task that receives the body.
ReadDone(r) ==
    /\ r \in DOMAIN rec
    /\ rec[r].task = "read"
    /\ Step(r, Downloaded(rec[r]))

\* unpack_archive raised in the executor: no state is written (lines 428-430).
UnpackError(r) ==
    /\ r \in DOMAIN rec
    /\ rec[r].task = "unpack"
    /\ Step(r, Raise(rec[r]))

\* Variant of UnknownType: the lookup of the process type is not guarded.
UnknownType_uncaught(procfile, ptype) == FALSE

\* process_types[process['process_type']] raises KeyError (lines 441-445).
UnknownType(procfile, ptype) == ptype # procfile

\* The manifest step (lines 431-445) and, when it finds the process type,
\* the spawn of create_venv's child (lines 447-452, 349-359).
AfterUnpack(p, procfile) ==
    LET q == [Begin(Write(p, "processing"), "manifest") EXCEPT
                 !.procfile = procfile, !.resp = NoResp, !.format = "",
                 !.ctype = ""]
    IN  IF procfile = "absent"
        THEN Return(Write(q, "no procfile"))
        ELSE IF UnknownType(procfile, p.process_type)
        THEN Return(Write(q, "unknown process type"))
        ELSE [Begin(q, "venv") EXCEPT !.task = "venv"]

\* The executor call returned (lines 428-452).
Unpacked(p, procfile) ==
    IF KnownFormat(p.format) THEN AfterUnpack(p, procfile) ELSE Raise(p)

\* The step of the task that follows the executor call.
UnpackDone(r, procfile) ==
    /\ r \in DOMAIN rec
    /\ rec[r].task = "unpack"
    /\ Step(r, Unpacked(rec[r], procfile))

\* Variant of CommandFailed: only a negative status counts as a failure.
CommandFailed_onSignalOnly(status) == status < 0

\* create_venv / pip_install: the child failed (lines 361, 379).
CommandFailed(status) == status # 0

\* Variant of VenvExited: the pipeline looks at its stop future before it
\* installs, and returns when it is done.
VenvExited_unlessStopped(p0, status) ==
    LET p == [p0 EXCEPT !.venv = status]
    IN  IF p0.stop = "done" THEN Return(p)
        ELSE IF CommandFailed(status)
        THEN Raise(Write(p, "virtual environment failure"))
        ELSE [Begin(p, "pip") EXCEPT !.task = "pip"]

\* The virtualenv child has exited (lines 359-362, 451-460).
VenvExited(p0, status) ==
    LET p == [p0 EXCEPT !.venv = status]
    IN  IF CommandFailed(status)
        THEN Raise(Write(p, "virtual environment failure"))
        ELSE [Begin(p, "pip") EXCEPT !.task = "pip"]

\* The step of the task that follows the exit of the virtualenv child.
VenvDone(r, status) ==
    /\ r \in DOMAIN rec
    /\ rec[r].task = "venv"
    /\ Step(r, VenvExited(rec[r], status))

\* env=dict(process_type['env']) (line 472).
SupervisedEnv(p) == ProcEnv(p.procfile)

\* Variant of Shutdown: the supervisor is handed a future nobody fires.
Shutdown_private(p) == "pending"

\* shutdown=process['stop'] (line 473).
Shutdown(p) == p.stop

\* run_and_respawn starts a child with the environment it was given.
Spawn(p) ==
    [p EXCEPT !.child = "alive", !.spawns = @ + 1, !.childEnv = SupervisedEnv(p)]

\* The pip child has exited (lines 377-380, 459-474). On success
\* run_and_respawn is entered and runs to its first suspension: it spawns
\* the child; entered with its shutdown future done, it may also find
\* nothing to run.
PipExited(p0, status, spawn) ==
    LET p == [p0 EXCEPT !.pip = status]
        q == [Begin(p, "run") EXCEPT !.task = "run"]
    IN  IF CommandFailed(status)
        THEN Raise(Write(p, "pip install failure"))
        ELSE IF spawn THEN Spawn(q) ELSE q

\* The step of the task that follows the exit of the pip child: a
\* supervisor entered with a pending shutdown future always spawns.
PipDone(r, status, spawn) ==
    /\ r \in DOMAIN rec
    /\ rec[r].task = "pip"
    /\ spawn \/ (~CommandFailed(status) /\ Shutdown(rec[r]) = "done")
    /\ Step(r, PipExited(rec[r], status, spawn))

\* The supervised child has exited, by itself or terminated by the
\* supervisor: it is respawned unless the shutdown future is done.
ChildExit(r) ==
    /\ r \in DOMAIN rec
    /\ rec[r].task = "run" /\ rec[r].child = "alive"
    /\ IF Shutdown(rec[r]) = "done"
       THEN Step(r, [rec[r] EXCEPT !.child = "none"])
       ELSE /\ rec[r].spawns < MaxSpawns
            /\ Step(r, Spawn(rec[r]))

\* Variant of SupervisorReturns: the child is not waited for.
SupervisorReturns_atOnce(p) == Shutdown(p) = "done"

\* strawboss.run_and_respawn returns once its shutdown future is done and
\* no child is left.
SupervisorReturns(p) == Shutdown(p) = "done" /\ p.child = "none"

\* yield from run_and_respawn(...) returns and the task ends (lines 469-474).
RunDone(r) ==
    /\ r \in DOMAIN rec
    /\ rec[r].task = "run"
    /\ SupervisorReturns(rec[r])
    /\ Step(r, Return(rec[r]))

\* ------------------------------------------------------------------ main
\* A step of main outside the handlers and the tasks.
Lifecycle(a) ==
    /\ agent' = a
    /\ UNCHANGED <<processes, rec, req, last, nreq, wins, removals, gone>>

\* main: the endpoint and configure_logging (lines 700-720).
Configure ==
    /\ agent.phase = "start"
    /\ Lifecycle(Configured(agent))

\* responder runs start_responder (lines 673-676, 621-667): the application,
\* the bind event, then create_server is awaited.
Bind ==
    /\ agent.phase = "configured"
    /\ Lifecycle(Bound(agent))

\* create_server returns, or raises and ends the process (lines 667-683).
Listen(ok) ==
    /\ agent.phase = "binding"
    /\ Lifecycle(IF ok THEN Listening(agent)
                 ELSE [agent EXCEPT !.phase = "failed"])

\* Variant of Sigint: the listening server is not closed.
Sigint_keepsListening ==
    /\ agent.phase = "serving"
    /\ Lifecycle([agent EXCEPT !.phase = "closing",
                               !.trace = Append(@, "server.close")])

\* KeyboardInterrupt in loop.run_forever: responder's finally clause begins
\* with server.close() and awaits server.wait_closed() (lines 684-686).
Sigint ==
    /\ agent.phase = "serving"
    /\ Lifecycle([agent EXCEPT !.server = "closed", !.phase = "closing",
                               !.trace = Append(@, "server.close")])

\* server.wait_closed() is over; handler.finish_connections(1.0) is awaited
\* (lines 686-687).
WaitClosed ==
    /\ agent.phase = "closing"
    /\ Lifecycle([agent EXCEPT !.phase = "draining",
                               !.trace = Append(@, "server.wait_closed")])

\* The events of the handlers the drain cancels: access_log logs a
\* cancellation where CancelledError is an Exception.
CancelledLog(a, n, logged) ==
    [a EXCEPT !.log = @ \o [k \in 1..(IF logged THEN n ELSE 0) |->
                               [event |-> "http.access",
                                timestamp |-> Stamp(a.logging.stamper,
                                                    ArrivalTime)]]]

\* finish_connections(1.0) is over: the handlers still suspended after the
\* grace period are gone with their connections; app.finish() is awaited
\* (lines 687-688).
Drained(logged) ==
    /\ agent.phase = "draining"
    /\ req' = <<>>
    /\ agent' = [CancelledLog(agent, Len(req), logged) EXCEPT
                    !.phase = "finishing",
                    !.trace = Append(@, "handler.finish_connections")]
    /\ UNCHANGED <<processes, rec, last, nreq, wins, removals, gone>>

\* app.finish() is over: the loop runs no more (line 688).
AppFinished ==
    /\ agent.phase = "finishing"
    /\ Lifecycle([agent EXCEPT !.phase = "finished",
                               !.trace = Append(@, "app.finish")])

\* autoclose(client) is left (lines 678, 321-327).
CloseClient ==
    /\ agent.phase = "finished"
    /\ Lifecycle([agent EXCEPT !.phase = "interrupted", !.client = "closed",
                               !.trace = Append(@, "client.close")])

\* except KeyboardInterrupt: the stop event (lines 731-732).
LogStop ==
    /\ agent.phase = "interrupted"
    /\ Lifecycle([Emit(agent, "stop", "") EXCEPT !.phase = "stopped"])

Next ==
    \/ \E hdr \in NoRequestId : Index(hdr)
    \/ \E body \in Bodies, hdr \in NoRequestId : CreateArrive(body, hdr)
    \/ \E i \in 1..MaxRequests : CreateHandle(i)
    \/ \E slug \in LookupSlugs, hdr \in NoRequestId : Status(slug, hdr)
    \/ \E hdr \in NoRequestId : List(hdr)
    \/ \E slug \in LookupSlugs, hdr \in NoRequestId : DeleteArrive(slug, hdr)
    \/ \E i \in 1..MaxRequests : DeleteResume(i)
    \/ \E slug \in LookupSlugs, hdr \in NoRequestId : AttachArrive(slug, hdr)
    \/ \E i \in 1..MaxRequests : AttachFinish(i)
    \/ \E r \in 1..MaxRecords : TaskStart(r)
    \/ \E r \in 1..MaxRecords : GetError(r)
    \/ \E r \in 1..MaxRecords, resp \in Responses : GetDone(r, resp)
    \/ \E r \in 1..MaxRecords, err \in BodyErrors : ReadError(r, err)
    \/ \E r \in 1..MaxRecords : ReadDone(r)
    \/ \E r \in 1..MaxRecords : UnpackError(r)
    \/ \E r \in 1..MaxRecords, procfile \in Procfiles : UnpackDone(r, procfile)
    \/ \E r \in 1..MaxRecords, status \in ExitStatuses : VenvDone(r, status)
    \/ \E r \in 1..MaxRecords, status \in ExitStatuses, spawn \in BOOLEAN :
          PipDone(r, status, spawn)
    \/ \E r \in 1..MaxRecords : ChildExit(r)
    \/ \E r \in 1..MaxRecords : RunDone(r)

Spec == Init /\ [][Next]_vars

\* The bodies of the HTTP layer's runs: one the schema accepts, one it refuses.
HttpBodies == {body \in Bodies : body.env = NoEnv /\ Str(body.source_url)}

\* The HTTP layer under every X-Request-Id header, with a source_url that
\* cannot be fetched: the pipeline ends in its download.
HttpNext ==
    \/ \E body \in HttpBodies, hdr \in RequestIds : CreateArrive(body, hdr)
    \/ \E i \in 1..MaxRequests : CreateHandle(i)
    \/ \E slug \in Slugs, hdr \in RequestIds : Status(slug, hdr)
    \/ \E hdr \in RequestIds : List(hdr)
    \/ \E slug \in Slugs, hdr \in RequestIds : DeleteArrive(slug, hdr)
    \/ \E i \in 1..MaxRequests : DeleteResume(i)
    \/ \E slug \in Slugs, hdr \in RequestIds : AttachArrive(slug, hdr)
    \/ \E i \in 1..MaxRequests : AttachFinish(i)
    \/ \E r \in 1..MaxRecords : TaskStart(r)
    \/ \E r \in 1..MaxRecords : GetError(r)

HttpSpec == Init /\ [][HttpNext]_vars

\* CREATE with and without env, DELETE, and the whole pipeline.
EnvNext ==
    \/ \E body \in ValidBodies, hdr \in NoRequestId : CreateArrive(body, hdr)
    \/ \E i \in 1..MaxRequests : CreateHandle(i)
    \/ \E slug \in Slugs, hdr \in NoRequestId : DeleteArrive(slug, hdr)
    \/ \E i \in 1..MaxRequests : DeleteResume(i)
    \/ \E r \in 1..MaxRecords : TaskStart(r)
    \/ \E r \in 1..MaxRecords : GetError(r)
    \/ \E r \in 1..MaxRecords, resp \in Responses : GetDone(r, resp)
    \/ \E r \in 1..MaxRecords, err \in BodyErrors : ReadError(r, err)
    \/ \E r \in 1..MaxRecords : ReadDone(r)
    \/ \E r \in 1..MaxRecords : UnpackError(r)
    \/ \E r \in 1..MaxRecords, procfile \in Procfiles : UnpackDone(r, procfile)
    \/ \E r \in 1..MaxRecords, status \in ExitStatuses : VenvDone(r, status)
    \/ \E r \in 1..MaxRecords, status \in ExitStatuses, spawn \in BOOLEAN :
          PipDone(r, status, spawn)
    \/ \E r \in 1..MaxRecords : ChildExit(r)
    \/ \E r \in 1..MaxRecords : RunDone(r)

EnvSpec == Init /\ [][EnvNext]_vars

\* main from its first statement to its stop event, with CREATE and the
\* index served in between and pipelines that cannot fetch their archive.
MainNext ==
    \/ Configure
    \/ Bind
    \/ \E ok \in BOOLEAN : Listen(ok)
    \/ \E hdr \in NoRequestId : Index(hdr)
    \/ \E body \in HttpBodies, hdr \in NoRequestId : CreateArrive(body, hdr)
    \/ \E i \in 1..MaxRequests : CreateHandle(i)
    \/ \E r \in 1..MaxRecords : TaskStart(r)
    \/ \E r \in 1..MaxRecords : GetError(r)
    \/ Sigint
    \/ WaitClosed
    \/ \E logged \in BOOLEAN : Drained(logged)
    \/ AppFinished
    \/ CloseClient
    \/ LogStop

MainSpec == InitWith(DefaultBoot) /\ [][MainNext]_vars

\* main under every endpoint argument, environment, --utc and --log-format,
\* from its first statement to its stop event, the index served in between.
BootInit ==
    \E arg \in ArgumentEndpoints, environ \in EnvironEndpoints,
       utc \in BOOLEAN, log_format \in LogFormats :
        InitWith(Boot(arg, environ, utc, log_format))

BootNext ==
    \/ Configure
    \/ Bind
    \/ \E ok \in BOOLEAN : Listen(ok)
    \/ \E hdr \in NoRequestId : Index(hdr)
    \/ Sigint
    \/ WaitClosed
    \/ \E logged \in BOOLEAN : Drained(logged)
    \/ AppFinished
    \/ CloseClient
    \/ LogStop

BootSpec == BootInit /\ [][BootNext]_vars

\* Every handler under (app, node) pairs that join to the same slug and to
\* different slugs, with pipelines that end in their download.
PairNext ==
    \/ \E body \in PairBodies, hdr \in NoRequestId : CreateArrive(body, hdr)
    \/ \E i \in 1..MaxRequests : CreateHandle(i)
    \/ \E slug \in AllSlugs, hdr \in NoRequestId : Status(slug, hdr)
    \/ \E hdr \in NoRequestId : List(hdr)
    \/ \E slug \in AllSlugs, hdr \in NoRequestId : DeleteArrive(slug, hdr)
    \/ \E i \in 1..MaxRequests : DeleteResume(i)
    \/ \E slug \in AllSlugs, hdr \in NoRequestId : AttachArrive(slug, hdr)
    \/ \E i \in 1..MaxRequests : AttachFinish(i)
    \/ \E r \in 1..MaxRecords : TaskStart(r)
    \/ \E r \in 1..MaxRecords : GetError(r)

PairSpec == Init /\ [][PairNext]_vars

\* The steps of the pipeline task of record r.
TaskStep(r) ==
    \/ TaskStart(r)
    \/ GetError(r)
    \/ \E resp \in Responses : GetDone(r, resp)
    \/ \E err \in BodyErrors : ReadError(r, err)
    \/ ReadDone(r)
    \/ UnpackError(r)
    \/ \E procfile \in Procfiles : UnpackDone(r, procfile)
    \/ \E status \in ExitStatuses : VenvDone(r, status)
    \/ \E status \in ExitStatuses, spawn \in BOOLEAN : PipDone(r, status, spawn)
    \/ ChildExit(r)
    \/ RunDone(r)

\* The requests of the runs to termination, and the whole pipeline.
LiveNext ==
    \/ \E body \in HttpBodies \cap ValidBodies, hdr \in NoRequestId : CreateArrive(body, hdr)
    \/ \E i \in 1..MaxRequests : CreateHandle(i)
    \/ \E slug \in Slugs, hdr \in NoRequestId : Status(slug, hdr)
    \/ \E hdr \in NoRequestId : List(hdr)
    \/ \E slug \in Slugs, hdr \in NoRequestId : DeleteArrive(slug, hdr)
    \/ \E i \in 1..MaxRequests : DeleteResume(i)
    \/ \E slug \in Slugs, hdr \in NoRequestId : AttachArrive(slug, hdr)
    \/ \E i \in 1..MaxRequests : AttachFinish(i)
    \/ \E r \in 1..MaxRecords : TaskStep(r)

\* The loop runs every callback that is ready: a handler whose awaited
\* future is done resumes, and a task whose phase has ended takes its next
\* step; every phase of a pipeline ends.
LoopFairness ==
    /\ \A i \in 1..MaxRequests :
          WF_vars(CreateHandle(i) \/ DeleteResume(i) \/ AttachFinish(i))
    /\ \A r \in 1..MaxRecords : WF_vars(TaskStep(r))

LiveSpec == Init /\ [][LiveNext]_vars /\ LoopFairness


\* ------------------------------------------------------------------ claims

LiveWith(slug) == {r \in DOMAIN rec : Live(r) /\ rec[r].slug = slug}

\* C1: between two removals of a slug, exactly one CREATE for it returns 201
\* (the one that finds no 201 before it) and every other returns 409, and
\* the registry holds exactly one record for the slug.
C1_OneCreateWins ==
    /\ \A s \in AllSlugs :
          /\ wins[s] <= 1
          /\ wins[s] = 1 <=> s \in DOMAIN processes
          /\ Cardinality(LiveWith(s)) = wins[s]
    /\ (last.kind = "create" /\ last.slug # "") =>
          /\ last.status \in {201, 409}
          /\ last.status = 201 <=> last.winsSeen = 0
          /\ last.status = 409 <=> last.winsSeen = 1

\* Two CREATEs for one slug were both suspended on their bodies; the second
\* one handled got 409.
C1_Witness ==
    /\ nreq = 2 /\ req = <<>>
    /\ last.kind = "create" /\ last.status = 409 /\ last.winsSeen = 1
    /\ last.slug \in DOMAIN processes


\* The state machine of the pipeline: which state may follow which.
Machine ==
    {<<"pending", "downloading">>,
     <<"downloading", "download failure">>,
     <<"downloading", "unpacking">>,
     <<"unpacking", "processing">>,
     <<"processing", "no procfile">>,
     <<"processing", "unknown process type">>,
     <<"processing", "virtual environment failure">>,
     <<"processing", "pip install failure">>}

Registered(r) ==
    rec[r].slug \in DOMAIN processes /\ processes[rec[r].slug] = r

\* C2: the states a record has taken form a prefix of a path of the machine
\* that starts at pending, and the state field is the last one written.
C2_StatePath ==
    \A r \in DOMAIN rec : Live(r) =>
        LET h == rec[r].states
        IN  /\ Len(h) >= 1 /\ h[1] = "pending"
            /\ \A k \in 1..(Len(h) - 1) : <<h[k], h[k + 1]>> \in Machine
            /\ rec[r].state = h[Len(h)]

\* A record went the whole way to a pip failure while three requests were
\* handled.
C2_Witness ==
    \E r \in DOMAIN rec :
        /\ rec[r].states = <<"pending", "downloading", "unpacking", "processing",
                             "pip install failure">>
        /\ nreq >= 3 /\ last.kind = "status"

\* C3: a 201 reports pending; when create_process returns the record is in
\* the registry with state pending and its task has written nothing; a state
\* is written only to a record that is in the registry; and a GET of a slug
\* in the registry returns 200 with the state the record has at that step.
C3_PendingThenCurrent ==
    /\ [](last.kind = "create" /\ last.status = 201 => last.state = "pending")
    /\ [](\A r \in DOMAIN rec : rec[r].task = "created" =>
              rec[r].state = "pending" /\ Registered(r))
    /\ [][Len(rec') # Len(rec) =>
              LET r == Len(rec')
              IN  /\ last'.kind = "create" /\ last'.status = 201
                  /\ last'.state = "pending" /\ last'.rid = r
                  /\ processes'[last'.slug] = r
                  /\ rec'[r].state = "pending" /\ rec'[r].states = <<"pending">>]_vars
    /\ [][\A r \in DOMAIN rec :
              rec'[r].states # rec[r].states /\ rec'[r].task # "freed"
                  => Registered(r)]_vars
    /\ [][(nreq' = nreq + 1 /\ req' = req /\ last'.kind = "status"
              /\ last'.slug \in DOMAIN processes) =>
              /\ last'.status = 200
              /\ last'.state = rec[processes[last'.slug]].state]_vars

\* A GET answered 200 with a state the pipeline wrote after the 201.
C3_Witness ==
    /\ last.kind = "status" /\ last.status = 200 /\ last.state = "unpacking"
    /\ last.slug \in DOMAIN processes

\* The download step failed on the response it obtained.
ResponseRefused(p) ==
    /\ p.resp # NoResp
    /\ \/ p.resp.status # 200
       \/ p.resp.ctype \notin {"application/zip", "application/x-gtar"}

\* C4: a record whose download got a non-200 response, or a content type
\* other than application/zip and application/x-gtar, is in state download
\* failure, its task has raised, no later phase was started, and it is in the
\* registry for as long as it exists.
C4_DownloadFailure ==
    \A r \in DOMAIN rec : Live(r) /\ ResponseRefused(rec[r]) =>
        /\ rec[r].state = "download failure"
        /\ rec[r].task = "raised"
        /\ rec[r].started = {"download"}
        /\ Registered(r)

\* A 200 response of type text/html was refused.
C4_Witness ==
    \E r \in DOMAIN rec :
        /\ rec[r].resp = [status |-> 200, ctype |-> "text/html"]
        /\ rec[r].state = "download failure" /\ rec[r].task = "raised"

Provisioning == {"venv", "pip", "run"}

\* C5: with no Procfile the state is no procfile, with a Procfile lacking the
\* requested type it is unknown process type; in both the task has returned
\* normally, no provisioning or supervised step was started, and the record
\* is in the registry for as long as it exists.
C5_ManifestStops ==
    \A r \in DOMAIN rec : Live(r) /\ rec[r].procfile # "" =>
        /\ rec[r].procfile = "absent" =>
              /\ rec[r].state = "no procfile"
              /\ rec[r].task = "returned"
              /\ rec[r].started \cap Provisioning = {}
              /\ Registered(r)
        /\ (rec[r].procfile # "absent"
                /\ rec[r].procfile # rec[r].process_type) =>
              /\ rec[r].state = "unknown process type"
              /\ rec[r].task = "returned"
              /\ rec[r].started \cap Provisioning = {}
              /\ Registered(r)

\* A second record ended in unknown process type, read by a GET, after a
\* first one was deleted.
C5_Witness ==
    \E r \in DOMAIN rec :
        /\ r = 2 /\ Registered(r)
        /\ rec[r].procfile = "worker" /\ rec[r].state = "unknown process type"
        /\ rec[r].task = "returned"
        /\ last.kind = "status" /\ last.state = "unknown process type"

\* C6: a failing virtualenv child gives virtual environment failure and pip
\* is never spawned; a failing pip child after a successful virtualenv gives
\* pip install failure and the supervised run is never started; in both the
\* task has raised.
C6_ProvisioningFailure ==
    \A r \in DOMAIN rec : Live(r) =>
        /\ rec[r].venv \notin {-1, 0} =>
              /\ rec[r].state = "virtual environment failure"
              /\ rec[r].task = "raised"
              /\ rec[r].pip = -1
              /\ rec[r].started \cap {"pip", "run"} = {}
        /\ (rec[r].venv = 0 /\ rec[r].pip \notin {-1, 0}) =>
              /\ rec[r].state = "pip install failure"
              /\ rec[r].task = "raised"
              /\ "run" \notin rec[r].started

\* A pip child failed after a successful virtualenv child, and a GET read it.
C6_Witness ==
    \E r \in DOMAIN rec :
        /\ rec[r].venv = 0 /\ rec[r].pip = 1
        /\ rec[r].state = "pip install failure" /\ rec[r].task = "raised"
        /\ last.kind = "status" /\ last.state = "pip install failure"


\* C7: every DELETE of a slug that is in the registry responds 200, however
\* the pipeline task ends.
C7_DeleteAlways200 ==
    (last.kind = "delete" /\ last.found) => last.status = 200

\* C8: a DELETE that fires a stop signal already fired raises no error.
C8_SecondFiringIsSilent ==
    (last.kind = "delete" /\ last.stopSeen = "done") => last.err = ""

\* C9: a record whose pipeline task is still running is in the registry under
\* its slug; a slug leaves the registry only in a step of delete_process that
\* answers 200, taken when the task of the record stored under it is done.
C9_ErasedAfterTaskEnds ==
    /\ [](\A r \in DOMAIN rec :
              Live(r) /\ ~TaskDone(rec[r].task) => Registered(r))
    /\ [][\A s \in DOMAIN processes : s \notin DOMAIN processes' =>
              /\ TaskDone(rec[processes[s]].task)
              /\ last'.kind = "delete" /\ last'.status = 200
              /\ last'.slug = s /\ last'.rid = processes[s]]_vars

\* A DELETE that had to wait for the task answered 200 and the record is gone.
C9_Witness ==
    /\ last.kind = "delete" /\ last.status = 200 /\ last.waited
    /\ last.slug \notin DOMAIN processes
    /\ rec[last.rid].task = "freed"

\* C10 as stated: once a DELETE of a slug has returned 200, every later
\* status, delete or attach request for that slug gets 404.
C10_Always404AfterDelete ==
    (last.kind \in {"status", "delete", "attach"} /\ last.afterDelete) =>
        last.status = 404

\* C10, amended: once a DELETE of a slug has returned 200, and until a CREATE
\* for that slug returns 201, every status, delete or attach request for the
\* slug gets 404.
C10_404UntilRecreated ==
    (last.kind \in {"status", "delete", "attach"} /\ last.afterGone) =>
        last.status = 404

\* An attach request arrived after the DELETE returned and was refused.
C10_Witness ==
    /\ last.kind = "attach" /\ last.afterGone /\ last.status = 404
    /\ removals[last.slug] = 1


Overlaid(base, over) ==
    {kv \in base : \A o \in over : o[1] # kv[1]} \cup over

\* C13: the environment of the supervised child is the Procfile's
\* environment of the process type with the request's env laid over it.
C13_EnvOverlaid ==
    \A r \in DOMAIN rec : (Live(r) /\ rec[r].spawns > 0) =>
        rec[r].childEnv = Overlaid(ProcEnv(rec[r].procfile), rec[r].env)


\* A CREATE body the schema refuses: a required key is missing or is not a
\* string, or an env value is not a string.
Violates(r) ==
    \/ r.app \notin Apps
    \/ r.node \notin Nodes
    \/ r.source_url \notin Urls
    \/ r.process_type \notin ProcessTypes
    \/ \E kv \in r.env : kv[2] = NotAStr

\* C14: a CREATE gets 400 exactly when its body violates the schema, and
\* the step that answers 400 leaves the registry and the records (with their
\* stop futures and tasks) as they were and logs no process.create.
C14_InvalidCreateChangesNothing ==
    /\ [](last.kind = "create" => (last.status = 400 <=> Violates(last)))
    /\ [][(Len(req') < Len(req) /\ last'.kind = "create"
               /\ last'.status = 400) =>
              /\ processes' = processes
              /\ rec' = rec
              /\ last'.events = <<>>]_vars

\* A CREATE whose env holds a value that is not a string got 400 while a
\* record was in the registry.
C14_Witness ==
    /\ last.kind = "create" /\ last.status = 400
    /\ last.env = {<<"PORT", NotAStr>>} /\ last.events = <<>>
    /\ DOMAIN processes # {}

\* C15: a status, delete or attach request for a slug that is not in the
\* registry gets 404, and its step changes neither the registry nor any
\* record (no stop future is fired) and logs no event.
C15_UnknownSlugIs404 ==
    [][(nreq' = nreq + 1 /\ req' = req
           /\ last'.kind \in {"status", "delete", "attach"}
           /\ last'.slug \notin DOMAIN processes) =>
          /\ last'.status = 404
          /\ processes' = processes
          /\ rec' = rec
          /\ last'.events = <<>>]_vars

\* A DELETE of a slug nobody created got 404 while another slug was in the
\* registry.
C15_Witness ==
    /\ last.kind = "delete" /\ last.slug = "unknown" /\ last.status = 404
    /\ last.events = <<>>
    /\ DOMAIN processes # {}

C17_LocationIsDetails ==
    (last.kind = "create" /\ last.status = 201) =>
        /\ last.detail.details = last.location
        /\ last.location =
               "http://127.0.0.1:8080/process-status/" \o last.app \o "."
                   \o last.node

\* A CREATE got 201 for a slug that had been deleted before.
C17_Witness ==
    /\ last.kind = "create" /\ last.status = 201 /\ last.afterDelete
    /\ last.location = "http://127.0.0.1:8080/process-status/foo.web.0"

\* C18: a request whose handler is over has logged exactly one http.access
\* event, however the handler ended; one whose handler is suspended has
\* logged none yet.
C18_OneAccessEvent ==
    /\ last.kind # "" =>
          /\ last.raised \in {"", "HTTPException", "Exception"}
          /\ Len(last.access) = 1
          /\ last.access[1].event = "http.access"
    /\ \A i \in DOMAIN req : req[i].access = <<>>

\* A handler ended on an exception that is no HTTP exception.
C18_Witness ==
    /\ last.raised = "Exception" /\ Len(last.access) = 1
    /\ last.kind = "delete"

\* C19: the outcome logged is the status of the response the handler
\* returned, the status of the HTTP exception it raised, or 500 for any
\* other exception; the exception goes on to the server, so the client
\* reads the status that was logged.
C19_OutcomeIsStatus ==
    last.kind # "" =>
        /\ last.raised \in {"", "HTTPException"} =>
               last.access[1].outcome = last.hstatus
        /\ last.raised = "Exception" => last.access[1].outcome = 500
        /\ last.status = last.access[1].outcome

\* A handler raised HTTPConflict and 409 was logged and sent.
C19_Witness ==
    /\ last.kind = "create" /\ last.raised = "HTTPException"
    /\ last.access[1].outcome = 409 /\ last.status = 409

\* C20: every response carries X-Request-Id: the value the client sent, or
\* a generated UUID when it sent none (or an empty one).
C20_EveryResponseEchoesId ==
    last.kind # "" =>
        last.xrid = IF last.hdr \notin {Missing, ""} THEN last.hdr ELSE Uuid


\* C21: the request field of the http.access event of a request is the id
\* stored on that request, the client's value or the generated one, never
\* the placeholder; and it is the X-Request-Id of the response.
C21_RequestFieldIsEchoedId ==
    last.kind # "" =>
        /\ last.access[1].request = last.id
        /\ last.id = IF last.hdr \notin {Missing, ""} THEN last.hdr ELSE Uuid
        /\ last.access[1].request # "?"
        /\ last.xrid = last.access[1].request

\* C22: attaching to a registered slug completes the handshake, logs one
\* process.attach event with that slug, sends no frame and closes the
\* socket; neither step of the handler changes a record or the registry.
C22_AttachStreamsNothing ==
    [][/\ (Len(req') = Len(req) + 1 /\ req'[Len(req')].kind = "attach") =>
            /\ req'[Len(req')].slug \in DOMAIN processes
            /\ rec' = rec /\ processes' = processes
       /\ (Len(req') = Len(req) - 1 /\ last'.kind = "attach") =>
            /\ last'.status = 101
            /\ last'.events = <<"process.attach">>
            /\ last'.eventSlug = last'.slug
            /\ last'.frames = <<>>
            /\ last'.closed
            /\ rec' = rec /\ processes' = processes]_vars

\* An attach to a process whose pipeline is under way has been served.
C22_Witness ==
    /\ last.kind = "attach" /\ last.status = 101 /\ last.closed
    /\ last.rid \in DOMAIN rec
    /\ rec[last.rid].state = "downloading"

\* C25: download checks the status first: a response that is not a 200
\* fails with 'Download failed.' and the predicate is not asked; a 200 the
\* predicate rejects fails with 'Download rejected.'; in both cases nothing
\* is written to the destination. The body is written, whole, and the
\* Content-Type returned only when both checks have passed.
C25_ChecksInOrder ==
    \A r \in DOMAIN rec : (Live(r) /\ rec[r].response # "none") =>
        LET p == rec[r]
        IN  /\ (p.resp # NoResp /\ p.resp.status # 200) =>
                /\ p.dlerr = "Download failed." /\ ~p.consulted
                /\ p.written = "none" /\ p.ctype = ""
                /\ p.state = "download failure"
            /\ (p.resp.status = 200 /\ Rejects(p.resp.ctype)) =>
                /\ p.dlerr = "Download rejected." /\ p.consulted
                /\ p.written = "none" /\ p.ctype = ""
                /\ p.state = "download failure"
            /\ p.written # "none" => /\ p.consulted
                                     /\ p.dlerr \notin {"Download failed.",
                                                        "Download rejected."}
            /\ (p.written = "body" /\ p.resp # NoResp) =>
                /\ p.resp.status = 200 /\ ~Rejects(p.resp.ctype)
                /\ p.ctype = p.resp.ctype
            /\ p.ctype # "" => p.written = "body"

\* One download has failed on the status of a response whose type the
\* predicate would have rejected too.
C25_Witness ==
    \E r \in DOMAIN rec :
        /\ Live(r) /\ rec[r].dlerr = "Download failed."
        /\ Rejects(rec[r].resp.ctype) /\ ~rec[r].consulted

\* C26: once download has its response, the response is closed however
\* download is left: by its return, by either check, by an error while the
\* body is read or written. It is open only while the body is awaited.
C26_ResponseClosed ==
    \A r \in DOMAIN rec : (Live(r) /\ rec[r].response # "none") =>
        /\ rec[r].task = "read" <=> rec[r].response = "open"
        /\ rec[r].task # "read" => rec[r].response = "closed"

\* A download left by an error of the write, one whose response is closed.
C26_Witness ==
    \E r \in DOMAIN rec :
        /\ Live(r) /\ rec[r].dlerr = "write" /\ rec[r].response = "closed"
        /\ rec[r].state = "download failure"

\* The record as it would read had its stop future never been fired, the
\* supervised child aside.
Unstopped(p) ==
    [p EXCEPT !.stop = "pending", !.afterStop = {},
              !.child = "none", !.spawns = 0, !.childEnv = NoEnv]

\* Where the pipeline of a record can be before its supervised run.
BeforeRun == {"created", "get", "read", "unpack", "venv", "pip"}

\* The records one step of the pipeline can make of p.
Outcomes(p) ==
    CASE p.task = "created" -> {Started(p)}
      [] p.task = "get" ->
            {DownloadFailure(p)} \cup {Got(p, resp) : resp \in Responses}
      [] p.task = "read" ->
            {BodyFailed(p, err) : err \in BodyErrors} \cup {Downloaded(p)}
      [] p.task = "unpack" ->
            {Raise(p)} \cup {Unpacked(p, procfile) : procfile \in Procfiles}
      [] p.task = "venv" -> {VenvExited(p, status) : status \in ExitStatuses}
      [] p.task = "pip" ->
            {PipExited(p, status, TRUE) : status \in ExitStatuses}

\* C30: a stop future fired while the pipeline downloads, unpacks, creates
\* the virtual environment or installs changes nothing of what the pipeline
\* does: each of its steps on the stopped record begins the phases and
\* writes the states it would on the same record never stopped. The DELETE
\* that fired the future is suspended on a registered record and, resumed
\* once the task has ended, answers 200 and removes the record.
C30_StopUnseenBeforeRun ==
    [][/\ \A r \in DOMAIN rec :
            (/\ rec[r].task \in BeforeRun /\ rec[r].stop = "done"
             /\ rec'[r] # rec[r] /\ rec'[r].task # "freed") =>
                Unstopped(rec'[r]) \in
                    {Unstopped(q) : q \in Outcomes(Unstopped(rec[r]))}
       /\ \A i \in DOMAIN req : (req[i].kind = "delete") =>
            /\ req[i].slug \in DOMAIN processes
            /\ processes[req[i].slug] = req[i].rid
            /\ rec[req[i].rid].stop = "done"
       /\ (Len(req') = Len(req) - 1 /\ last'.kind = "delete") =>
            /\ TaskDone(rec[last'.rid].task)
            /\ last'.status = 200 /\ last'.waited
            /\ last'.slug \notin DOMAIN processes']_vars

\* The DELETE fired the stop future during the download; the pipeline went
\* on through every later phase and ended with an error; the DELETE is
\* about to resume.
C30_Witness ==
    \E i \in DOMAIN req :
        /\ req[i].kind = "delete" /\ req[i].pc = "await"
        /\ rec[req[i].rid].afterStop = {"unpack", "manifest", "venv", "pip"}
        /\ rec[req[i].rid].state = "pip install failure"
        /\ rec[req[i].rid].task = "raised"

\* Where in the agent's log an event stands.
Positions(event) == {k \in DOMAIN agent.log : agent.log[k].event = event}

\* C23: with a fluent:// endpoint the @timestamp of every record is a UTC
\* time, whatever the utc flag.
C23_FluentIsUtc ==
    agent.logging.factory = "fluent" =>
        \A k \in DOMAIN agent.log : agent.log[k].timestamp = "utc"

\* C24: main's endpoint is the argument when one is given, else the
\* environment variable when it is set, else file:///dev/stdout; an endpoint
\* that is neither file:// nor fluent:// makes configure_logging fail, with
\* no logger configuration installed and nothing logged.
C24_EndpointResolved ==
    /\ agent.phase = "start" => ~agent.logging.installed
    /\ agent.phase # "start" =>
        /\ agent.endpoint =
              IF agent.arg \notin {NoEndpoint, EmptyEndpoint} THEN agent.arg
              ELSE IF agent.environ \notin {NoEndpoint, EmptyEndpoint}
              THEN agent.environ
              ELSE Endpoint("file://", "/dev/stdout", "")
        /\ agent.endpoint.prefix \notin {"file://", "fluent://"} =>
              /\ agent.phase = "failed"
              /\ agent.logging.error = "Invalid logging endpoint"
              /\ ~agent.logging.installed
              /\ agent.log = <<>>

\* The argument names an unknown scheme while the environment names a
\* forwarder: the argument is used and the configuration fails.
C24_Witness ==
    /\ agent.phase = "failed" /\ agent.endpoint = Flume
    /\ agent.environ = Fluent

\* C27: the bind event is logged once, first of all and before the server
\* exists; every http.access event comes after it; the stop event is the
\* last of the log, after every http.access event.
C27_BindFirstStopLast ==
    /\ Positions("bind") \subseteq {1}
    /\ agent.phase \notin {"start", "configured", "failed"} =>
          Positions("bind") = {1}
    /\ agent.server # "none" => Positions("bind") = {1}
    /\ agent.phase = "binding" => agent.server = "none"
    /\ \A k \in Positions("http.access") : k > 1
    /\ Positions("stop") \subseteq {Len(agent.log)}
    /\ agent.phase = "stopped" <=> Positions("stop") # {}
    /\ \A k \in Positions("http.access"), j \in Positions("stop") : k < j

\* A run that served requests and was stopped.
C27_Witness ==
    /\ agent.phase = "stopped"
    /\ Cardinality(Positions("http.access")) >= 2
    /\ agent.log[Len(agent.log)].event = "stop"

\* The steps of a shutdown, in the order of the claim.
ShutdownOrder ==
    <<"server.close", "server.wait_closed", "handler.finish_connections",
      "app.finish", "client.close">>

\* C28: on SIGINT the server is closed first, then the handlers are
\* drained, then the application is finished, then the HTTP client is
\* closed, and then the stop event is logged; no request arrives once the
\* server is closed, and the client is never closed while the server listens.
C28_ShutdownOrder ==
    /\ [](/\ agent.trace = SubSeq(ShutdownOrder, 1, Len(agent.trace))
          /\ agent.trace # <<>> => agent.server = "closed"
          /\ agent.server = "listening" => agent.client = "open"
          /\ agent.client = "closed" =>
                /\ agent.server = "closed"
                /\ agent.trace = ShutdownOrder
                /\ req = <<>>
          /\ Positions("stop") # {} =>
                agent.client = "closed" /\ agent.trace = ShutdownOrder)
    /\ [][agent.server = "closed" => nreq' = nreq /\ Len(req') <= Len(req)]_vars

\* A shutdown that found a handler suspended and ran to its stop event.
C28_Witness ==
    /\ agent.phase = "stopped" /\ agent.client = "closed"
    /\ nreq > Len(agent.log) - 2

\* C29: once the agent has shut down, no pipeline task is left running:
\* those in flight were cancelled.
C29_NoTaskSurvivesShutdown ==
    agent.phase = "stopped" =>
        \A r \in DOMAIN rec :
            TaskDone(rec[r].task) \/ rec[r].task \in {"freed", "cancelled"}

\* The state a phase of the pipeline runs under.
Label(phase) ==
    CASE phase = "download" -> "downloading"
      [] phase = "unpack" -> "unpacking"
      [] OTHER -> "processing"

\* C32: while the download is in flight the state is 'downloading', while
\* the archive is extracted it is 'unpacking', and while the virtual
\* environment is created, the dependencies are installed or the process is
\* supervised it is 'processing'; the state of a phase is written before
\* the phase begins, and no other in-progress state exists.
C32_LabelIsActivity ==
    \A r \in DOMAIN rec : Live(r) =>
        LET p == rec[r]
        IN  /\ p.task \in {"get", "read"} => p.state = "downloading"
            /\ p.task = "unpack" => p.state = "unpacking"
            /\ p.task \in {"venv", "pip", "run"} => p.state = "processing"
            /\ \A phase \in p.started :
                  \E k \in DOMAIN p.states : p.states[k] = Label(phase)
            /\ ~TaskDone(p.task) =>
                  p.state \in {"pending", "downloading", "unpacking",
                               "processing"}

\* A supervised child runs, under the state 'processing'.
C32_Witness ==
    \E r \in DOMAIN rec :
        /\ rec[r].task = "run" /\ rec[r].child = "alive"
        /\ rec[r].state = "processing"
        /\ rec[r].started = {"download", "unpack", "manifest", "venv", "pip", "run"}

\* The states written when a phase fails or a manifest stops the pipeline.
FailureStates ==
    {"download failure", "no procfile", "unknown process type",
     "virtual environment failure", "pip install failure"}

\* C36: a record in one of the five failure states has a task that is
\* over; no step begins a phase for it or writes its state again: the
\* record stays as it is, its stop future aside, until DELETE removes it.
C36_FailureIsAbsorbing ==
    [][\A r \in DOMAIN rec :
          (Live(r) /\ rec[r].state \in FailureStates) =>
              /\ TaskDone(rec[r].task)
              /\ \/ [rec'[r] EXCEPT !.stop = rec[r].stop] = rec[r]
                 \/ /\ rec'[r] = Freed
                    /\ rec[r].slug \notin DOMAIN processes'
                    /\ last'.kind = "delete" /\ last'.status = 200]_vars

\* A record has failed to install and has been asked for since.
C36_Witness ==
    \E r \in DOMAIN rec :
        /\ rec[r].state = "pip install failure" /\ rec[r].task = "raised"
        /\ last.kind = "status" /\ last.state = "pip install failure"

\* The extractor has failed for the record: its task ended with an error
\* in the unpacking phase.
UnpackFailed(p) ==
    p.task = "raised" /\ p.state = "unpacking" /\ "unpack" \in p.started

\* A DELETE of the registered record r is answered in this step.
DeleteAnswered(r) ==
    /\ rec[r].slug \in DOMAIN processes /\ processes[rec[r].slug] = r
    /\ \/ nreq' = nreq + 1 /\ req' = req
       \/ Len(req') = Len(req) - 1
    /\ last'.kind = "delete" /\ last'.slug = rec[r].slug

\* C35: when the extractor fails no failure state is written: the state
\* stays 'unpacking' while the record exists, the task has ended with an
\* error, no later phase is begun, and a DELETE of the record answers 200
\* and removes it.
C35_UnpackFailure ==
    [][\A r \in DOMAIN rec : (Live(r) /\ UnpackFailed(rec[r])) =>
          /\ rec[r].started = {"download", "unpack"}
          /\ \/ [rec'[r] EXCEPT !.stop = rec[r].stop] = rec[r]
             \/ rec'[r] = Freed
          /\ DeleteAnswered(r) =>
                /\ last'.status = 200
                /\ rec[r].slug \notin DOMAIN processes']_vars

\* A DELETE has fired the stop future of the record under the slug and
\* the record's task is not over.
Stopping(slug) ==
    /\ slug \in DOMAIN processes
    /\ rec[processes[slug]].stop = "done"
    /\ ~TaskDone(rec[processes[slug]].task)

\* C37: from the firing of the stop future by a DELETE to the end of the
\* pipeline task the record is in the registry: a status request for the
\* slug gets 200 and the state of the record, the listing holds the record,
\* and a CREATE whose app and node join to the slug gets 409.
C37_RegisteredWhileStopping ==
    /\ [](\A r \in DOMAIN rec :
            (Live(r) /\ rec[r].stop = "done" /\ ~TaskDone(rec[r].task)) =>
                /\ rec[r].slug \in DOMAIN processes
                /\ processes[rec[r].slug] = r)
    /\ [][\A slug \in AllSlugs : Stopping(slug) =>
            /\ (nreq' = nreq + 1 /\ req' = req /\ last'.kind = "status"
                    /\ last'.slug = slug) =>
                  /\ last'.status = 200
                  /\ last'.state = rec[processes[slug]].state
            /\ (nreq' = nreq + 1 /\ req' = req /\ last'.kind = "list") =>
                  /\ last'.status = 200
                  /\ \E k \in DOMAIN last'.listing :
                        /\ last'.listing[k].slug = slug
                        /\ last'.listing[k].state = rec[processes[slug]].state
            /\ (Len(req') = Len(req) - 1 /\ last'.kind = "create"
                    /\ last'.slug = slug) =>
                  /\ last'.status = 409
                  /\ rec' = rec /\ processes' = processes]_vars

\* A CREATE for the slug was refused while the record was stopping.
C37_Witness ==
    /\ last.kind = "create" /\ last.status = 409
    /\ Stopping(last.slug)
    /\ \E i \in DOMAIN req : req[i].kind = "delete" /\ req[i].pc = "await"

\* C38: once a DELETE of a slug has returned 200, a CREATE whose app and
\* node join to the slug gets 201 and makes a record of its own: state
\* 'pending', a stop future that is not fired, a task that has not run,
\* no phase begun; the records made before are left as they are.
C38_RecreatedIsFresh ==
    [][\A slug \in gone :
          (Len(req') = Len(req) - 1 /\ last'.kind = "create"
              /\ last'.slug = slug) =>
              /\ last'.status = 201 /\ last'.state = "pending"
              /\ Len(rec') = Len(rec) + 1
              /\ \A k \in DOMAIN rec : rec'[k] = rec[k]
              /\ processes' = With(processes, slug, Len(rec'))
              /\ LET p == rec'[Len(rec')]
                 IN  /\ p.slug = slug /\ p.state = "pending"
                     /\ p.states = <<"pending">>
                     /\ p.stop = "pending" /\ p.task = "created"
                     /\ p.started = {} /\ p.child = "none"
                     /\ p.spawns = 0]_vars

\* The slug was created, deleted and created again.
C38_Witness ==
    /\ last.kind = "create" /\ last.status = 201 /\ last.afterGone
    /\ last.rid = 2 /\ rec[1].task = "freed"
    /\ removals[last.slug] = 1

\* The joined strings of the records in the registry.
Joined(app, node) == app \o "." \o node
RegisteredJoined ==
    {Joined(rec[processes[s]].app, rec[processes[s]].node) :
        s \in DOMAIN processes}

\* C39: a CREATE the schema accepts returns 409 exactly when app + "." + node
\* equals the joined string of a record in the registry, whatever (app, node)
\* pair that record was created with, and 201 otherwise; a 409 creates no
\* record and leaves the registry as it was.
C39_ConflictOnJoinedSlug ==
    [][(Len(req') = Len(req) - 1 /\ last'.kind = "create"
            /\ last'.status # 400) =>
          /\ last'.status \in {201, 409}
          /\ last'.status = 409 <=>
                Joined(last'.app, last'.node) \in RegisteredJoined
          /\ last'.status = 409 =>
                rec' = rec /\ processes' = processes /\ wins' = wins]_vars

C39_Witness ==
    /\ last.kind = "create" /\ last.status = 409
    /\ last.app = "foo.web" /\ last.node = "0"
    /\ "foo.web.0" \in DOMAIN processes
    /\ rec[processes["foo.web.0"]].app = "foo"
    /\ rec[processes["foo.web.0"]].node = "web.0"
    /\ Len(rec) = 1

\* The state field of record r is written in the step, the record staying.
StateWritten(r) == rec'[r].state # rec[r].state /\ rec'[r].task # "freed"

\* C33: a record's state field is written only by create_process, which
\* builds the record with "pending", and by the record's own pipeline task:
\* a step that changes the state of a record is a step of that record's task,
\* no handler runs or answers in it, and no other record changes in it.
C33_StateWriters ==
    [][/\ \A r \in DOMAIN rec :
             StateWritten(r) =>
                 /\ rec'[r].task # rec[r].task
                 /\ rec[r].task \notin {"returned", "raised", "freed"}
                 /\ \A q \in DOMAIN rec \ {r} : rec'[q] = rec[q]
                 /\ req' = req /\ last' = last /\ nreq' = nreq
                 /\ processes' = processes
       /\ \A r \in DOMAIN rec' \ DOMAIN rec :
             /\ rec'[r].state = "pending"
             /\ last'.kind = "create" /\ last'.status = 201 /\ last'.rid = r
             /\ \A q \in DOMAIN rec : rec'[q] = rec[q]]_vars

C33_Witness ==
    /\ Len(rec) = 2
    /\ rec[1].slug # rec[2].slug
    /\ rec[1].state = "download failure" /\ rec[2].state = "downloading"
    /\ rec[2].stop = "done"
    /\ last.kind = "attach" /\ last.slug = rec[2].slug
    /\ \E i \in DOMAIN req : req[i].kind = "delete" /\ req[i].slug = rec[2].slug

\* A pipeline task suspended in a phase.
Suspended(p) == p.task \in {"get", "read", "unpack", "venv", "pip", "run"}

\* A DELETE handler awaiting the pipeline task of its record.
AwaitingDelete(i) == req[i].kind = "delete" /\ req[i].pc = "await"

AtRecordBound(i) ==
    /\ req[i].kind = "create" /\ req[i].pc = "json"
    /\ req[i].slug \notin DOMAIN processes /\ Len(rec) >= MaxRecords

\* C31: every phase of a pipeline ending, whatever the interleaving of
\* CREATE, GET, ATTACH and DELETE, the agent comes again and again to a state
\* where no handler is suspended: a DELETE handler that awaits a pipeline
\* task, at whatever point of the pipeline it arrived, eventually resumes;
\* and when it resumes it answers 200 with the record removed from the
\* registry.
C31_DeleteTerminates ==
    /\ []<>(\A i \in DOMAIN req : AtRecordBound(i))
    /\ [][\A i \in DOMAIN req :
             (AwaitingDelete(i) /\ req' = Drop(i)) =>
                 /\ last'.kind = "delete" /\ last'.status = 200
                 /\ last'.rid = req[i].rid
                 /\ rec'[req[i].rid].task = "freed"
                 /\ req[i].slug \notin DOMAIN processes']_vars

C31_Witness ==
    /\ last.kind = "delete" /\ last.status = 200 /\ last.waited
    /\ last.stopSeen = "pending"
    /\ rec[last.rid].task = "freed"
    /\ DOMAIN processes = {} /\ req = <<>>
    /\ removals[last.slug] = 2

====
